---- MODULE Spec2Model ----
(***************************************************************************)
(* surf-pool: a bounded pool of Surf clients.                              *)
(*                                                                         *)
(* SurfPoolBuilder validates the size and records the health_check and     *)
(* pre_connect options; build() allocates one Mutex<Client> per slot,      *)
(* optionally warms every slot up, and creates a semaphore with one permit *)
(* per slot.  get_handler() waits for a permit, then scans the slots with  *)
(* try_lock and returns a Handler { sg, mg }.  A Handler has no Drop impl: *)
(* its fields are dropped in declaration order, sg (the permit) first and  *)
(* mg (the slot lock) second.                                              *)
(*                                                                         *)
(* The pool is Clone + Send and async-std runs tasks on several threads,   *)
(* so every access to the semaphore or to a slot mutex is a step of its    *)
(* own and steps of different calls interleave freely.                     *)
(*                                                                         *)
(* A SurfPool value holds Arcs: the mutexes and the semaphore live on the  *)
(* heap (mutexes, sem_permits, sem_waiters, indexed by the identity of the *)
(* allocation) and a SurfPool value (an entry of handles) refers to them.  *)
(* Identity 1 is what the modelled build() allocates; pool, permits and    *)
(* waiters below name its objects.                                         *)
(***************************************************************************)
EXTENDS Integers, Sequences, FiniteSets

\* src/src/lib.rs:8
MAX_POOL_SIZE == 100

\* Bounds of the model.
\* Largest small pool size explored by Spec (besides the limits 100, 101).
MaxSize == 3
\* Number of get_handler calls; each call runs once.
MaxCalls == 3
\* How far beyond MAX_POOL_SIZE the sizes given to new() go in BuilderSpec.
Over == 2
\* Number of pools built (CloneSpec builds the ones after the first).
MaxPools == 2
\* Number of SurfPool values: the built ones and their clones (CloneSpec).
MaxHandles == 3
\* Number of get_handler calls under CloneSpec.
MaxCloneCalls == 2

Calls == 1..MaxCalls
PoolIds == 1..MaxPools

\* Sizes given to SurfPoolBuilder::new under Spec and under BuilderSpec.
PoolSizes == (0..MaxSize) \cup {MAX_POOL_SIZE, MAX_POOL_SIZE + 1}
AllSizes == 0..(MAX_POOL_SIZE + Over)

VARIABLES
    phase,         \* "start", "builder", "error", "warm_lock", "warm_recv",
                   \* "finish", "built": position of the construction
    req,           \* the size given to SurfPoolBuilder::new
    builder,       \* SurfPoolBuilder { size, health_check, pre_connect }
    err,           \* the Err returned by new, or NoError
    warm_i,        \* build(): slot of the current warm-up iteration
    warmups,       \* slots a warm-up request was issued for, in order
    warm_failed,   \* some warm-up request returned an error
    mutexes,       \* heap: per allocated Vec<Arc<Mutex<Client>>>, per slot,
                   \* whether the Mutex is locked
    health_check,  \* SurfPool.health_check is Some
    sem_permits,   \* heap: per allocated Semaphore, the permits available
    sem_waiters,   \* heap: per allocated Semaphore, the pending acquires,
                   \* oldest first
    handles,       \* the SurfPool values: [pool, semaphore], the identities
                   \* of the allocations their Arcs point to
    arrivals,      \* number of acquires that had to suspend so far
    pc,            \* per call: "idle", "waiting", "woken", "scan", "has",
                   \* "dropping", "dropped", "panicked", "cancelled"
    idx,           \* per call: slot the scan probes next (0: not scanning)
    sg,            \* per call: it owns a SemaphoreGuardArc
    mg,            \* per call: slot its MutexGuardArc locks (0: none)
    ticket,        \* per call: arrival number of a suspended acquire, kept
                   \* until get_handler returns its Handler (0: none)
    via,           \* per call: the SurfPool value get_handler was called on
                   \* (0: not called yet)
    serial         \* so far no step of a call was taken while another call
                   \* or drop was in progress (one caller, one thing at a time)

vars == <<phase, req, builder, err, warm_i, warmups, warm_failed, mutexes,
          health_check, sem_permits, sem_waiters, handles, arrivals, pc, idx,
          sg, mg, ticket, via, serial>>

buildVars == <<phase, req, builder, err, warm_i, warmups, warm_failed>>
callVars == <<pc, idx, sg, mg, ticket, via, serial>>
semVars == <<sem_permits, sem_waiters, arrivals>>

\* SurfPool.pool and SurfPool.semaphore of the pool that build() returns
pool == mutexes[1]
permits == sem_permits[1]
waiters == sem_waiters[1]

-----------------------------------------------------------------------------
\* SurfPoolBuilder

\* #[derive(Default)] SurfPoolBuilder
DefaultBuilder == [size |-> 0, health_check |-> FALSE, pre_connect |-> FALSE]

NoError == [kind |-> "None", size |-> 0]
SizeNotValid(size) == [kind |-> "SizeNotValid", size |-> size]

\* A bound check that rejects the maximum itself.
new_exclusive(size) ==
    IF size = 0 \/ size >= MAX_POOL_SIZE
    THEN [ok |-> FALSE, err |-> SizeNotValid(size), builder |-> DefaultBuilder]
    ELSE [ok |-> TRUE, err |-> NoError,
          builder |-> [DefaultBuilder EXCEPT !.size = size]]

\* SurfPoolBuilder::new
new(size) ==
    IF size = 0 \/ size > MAX_POOL_SIZE
    THEN [ok |-> FALSE, err |-> SizeNotValid(size), builder |-> DefaultBuilder]
    ELSE [ok |-> TRUE, err |-> NoError,
          builder |-> [DefaultBuilder EXCEPT !.size = size]]

New(size) ==
    /\ phase = "start"
    /\ req' = size
    /\ LET r == new(size) IN
        /\ phase' = IF r.ok THEN "builder" ELSE "error"
        /\ builder' = r.builder
        /\ err' = r.err
    /\ UNCHANGED <<warm_i, warmups, warm_failed, mutexes, health_check,
                   handles>>
    /\ UNCHANGED <<semVars, callVars>>

\* SurfPoolBuilder::health_check
HealthCheck ==
    /\ phase = "builder"
    /\ builder' = [builder EXCEPT !.health_check = TRUE]
    /\ UNCHANGED <<phase, req, err, warm_i, warmups, warm_failed, mutexes,
                   health_check, handles>>
    /\ UNCHANGED <<semVars, callVars>>

\* SurfPoolBuilder::pre_connect
PreConnect(b) ==
    /\ phase = "builder"
    /\ builder' = [builder EXCEPT !.pre_connect = b]
    /\ UNCHANGED <<phase, req, err, warm_i, warmups, warm_failed, mutexes,
                   health_check, handles>>
    /\ UNCHANGED <<semVars, callVars>>

\* One slot short.
AllocPoolShort(size) == [k \in 1..(size - 1) |-> FALSE]

\* build(): one unlocked Mutex<Client> per slot
AllocPool(size) == [k \in 1..size |-> FALSE]

\* Warm-up whenever a health_check is set, whatever pre_connect says.
WarmupWantedAlways(b) == b.health_check

\* build(): the warm-up loop runs when a health_check is set and
\* pre_connect is true
WarmupWanted(b) == b.health_check /\ b.pre_connect

\* build() up to its first await
BuildStart ==
    /\ phase = "builder"
    /\ mutexes' = [mutexes EXCEPT ![1] = AllocPool(builder.size)]
    /\ IF WarmupWanted(builder)
       THEN phase' = "warm_lock" /\ warm_i' = 1
       ELSE phase' = "finish" /\ warm_i' = warm_i
    /\ UNCHANGED <<req, builder, err, warmups, warm_failed, health_check,
                   handles>>
    /\ UNCHANGED <<semVars, callVars>>

\* build(): let c = m.lock().await
WarmLock ==
    /\ phase = "warm_lock"
    /\ ~pool[warm_i]
    /\ mutexes' = [mutexes EXCEPT ![1][warm_i] = TRUE]
    /\ phase' = "warm_recv"
    /\ UNCHANGED <<req, builder, err, warm_i, warmups, warm_failed,
                   health_check, handles>>
    /\ UNCHANGED <<semVars, callVars>>

\* A warm-up whose failure leaves the slot's lock held.
WarmRecvKeepsLock ==
    /\ phase = "warm_recv"
    /\ \E ok \in BOOLEAN :
        /\ warm_failed' = (warm_failed \/ ~ok)
        /\ mutexes' = IF ok THEN [mutexes EXCEPT ![1][warm_i] = FALSE]
                      ELSE mutexes
    /\ warmups' = Append(warmups, warm_i)
    /\ IF warm_i < Len(pool)
       THEN phase' = "warm_lock" /\ warm_i' = warm_i + 1
       ELSE phase' = "finish" /\ warm_i' = warm_i
    /\ UNCHANGED <<req, builder, err, health_check, handles>>
    /\ UNCHANGED <<semVars, callVars>>

\* build(): c.recv_bytes(req.clone()).await.unwrap_or_default(), then c is
\* dropped at the end of the iteration
WarmRecv ==
    /\ phase = "warm_recv"
    /\ \E ok \in BOOLEAN : warm_failed' = (warm_failed \/ ~ok)
    /\ warmups' = Append(warmups, warm_i)
    /\ mutexes' = [mutexes EXCEPT ![1][warm_i] = FALSE]
    /\ IF warm_i < Len(pool)
       THEN phase' = "warm_lock" /\ warm_i' = warm_i + 1
       ELSE phase' = "finish" /\ warm_i' = warm_i
    /\ UNCHANGED <<req, builder, err, health_check, handles>>
    /\ UNCHANGED <<semVars, callVars>>

\* A gate with one permit too many.
Semaphore_new_extra(size) == size + 1

\* Semaphore::new(self.size)
Semaphore_new(size) == size

\* build(): SurfPool { pool, semaphore, health_check }
BuildReturn ==
    /\ phase = "finish"
    /\ phase' = "built"
    /\ sem_permits' = [sem_permits EXCEPT ![1] = Semaphore_new(builder.size)]
    /\ handles' = <<[pool |-> 1, semaphore |-> 1]>>
    /\ health_check' = builder.health_check
    /\ UNCHANGED <<req, builder, err, warm_i, warmups, warm_failed, mutexes>>
    /\ UNCHANGED <<sem_waiters, arrivals, callVars>>

\* SurfPool::get_pool_size
get_pool_size == Len(pool)

-----------------------------------------------------------------------------
\* SurfPool::get_handler and the drop of a Handler

\* The allocations call c works on: those of the SurfPool value it was made
\* on (&self.pool, self.semaphore), which its guards keep pointing to.
PoolOf(c) == handles[via[c]].pool
SemOf(c) == handles[via[c]].semaphore

\* No other call is between its request and its return, and no Handler is
\* part-way through its drop.
Quiet(c) ==
    \A d \in Calls \ {c} :
        pc[d] \in {"idle", "has", "dropped", "panicked", "cancelled"}

\* An acquire that never suspends.
sem_can_acquire_always(p, w) == TRUE

\* An acquire that keeps one permit in reserve.
sem_can_acquire_spare(p, w) == w = <<>> /\ p >= 2

\* Semaphore::acquire_arc(1) completes at once when no acquire is pending
\* and a permit is available
sem_can_acquire(p, w) == w = <<>> /\ p >= 1

\* Serving the newest pending acquire.
next_waiter_newest(w) == Len(w)

\* Semaphore release: the position, in the queue, of the pending acquire
\* that is served
next_waiter(w) == 1

RemoveAt(w, k) == [j \in 1..(Len(w) - 1) |-> IF j < k THEN w[j] ELSE w[j + 1]]

\* A try_lock that succeeds on a locked mutex.
try_lock_always(locked) == TRUE

\* Mutex::try_lock_arc succeeds exactly on an unlocked mutex
try_lock(locked) == ~locked

\* get_handler_option on SurfPool value h: self.semaphore.acquire_arc(1).await,
\* first poll
Acquire(c, h) ==
    /\ phase = "built"
    /\ pc[c] = "idle"
    /\ via' = [via EXCEPT ![c] = h]
    /\ serial' = (serial /\ Quiet(c))
    /\ LET s == handles[h].semaphore IN
       IF sem_can_acquire(sem_permits[s], sem_waiters[s])
       THEN /\ sem_permits' = [sem_permits EXCEPT ![s] = @ - 1]
            /\ sg' = [sg EXCEPT ![c] = TRUE]
            /\ pc' = [pc EXCEPT ![c] = "scan"]
            /\ idx' = [idx EXCEPT ![c] = 1]
            /\ UNCHANGED <<sem_waiters, arrivals, ticket>>
       ELSE /\ sem_waiters' = [sem_waiters EXCEPT ![s] = Append(@, c)]
            /\ arrivals' = arrivals + 1
            /\ ticket' = [ticket EXCEPT ![c] = arrivals + 1]
            /\ pc' = [pc EXCEPT ![c] = "waiting"]
            /\ UNCHANGED <<sem_permits, sg, idx>>
    /\ UNCHANGED <<buildVars, mutexes, health_check, handles, mg>>

\* get_handler_option: the suspended acquire_arc(1).await was granted a
\* permit; the task is polled again and goes on to the scan
Resume(c) ==
    /\ pc[c] = "woken"
    /\ pc' = [pc EXCEPT ![c] = "scan"]
    /\ idx' = [idx EXCEPT ![c] = 1]
    /\ serial' = (serial /\ Quiet(c))
    /\ UNCHANGED <<buildVars, mutexes, health_check, handles, semVars, sg, mg,
                   ticket, via>>

\* A scan that takes any free slot, not the first one.
TryLockAnyFree(c) ==
    /\ pc[c] = "scan"
    /\ idx[c] <= Len(mutexes[PoolOf(c)])
    /\ IF \E k \in 1..Len(mutexes[PoolOf(c)]) : try_lock(mutexes[PoolOf(c)][k])
       THEN \E k \in 1..Len(mutexes[PoolOf(c)]) :
            /\ try_lock(mutexes[PoolOf(c)][k])
            /\ mutexes' = [mutexes EXCEPT ![PoolOf(c)][k] = TRUE]
            /\ mg' = [mg EXCEPT ![c] = k]
            /\ pc' = [pc EXCEPT ![c] = "has"]
            /\ idx' = [idx EXCEPT ![c] = 0]
            /\ ticket' = [ticket EXCEPT ![c] = 0]
       ELSE /\ idx' = [idx EXCEPT ![c] = idx[c] + 1]
            /\ UNCHANGED <<mutexes, mg, pc, ticket>>
    /\ serial' = (serial /\ Quiet(c))
    /\ UNCHANGED <<buildVars, health_check, handles, semVars, sg, via>>

\* get_handler_option: one iteration of the scan, m.try_lock_arc()
TryLock(c) ==
    /\ pc[c] = "scan"
    /\ idx[c] <= Len(mutexes[PoolOf(c)])
    /\ IF try_lock(mutexes[PoolOf(c)][idx[c]])
       THEN /\ mutexes' = [mutexes EXCEPT ![PoolOf(c)][idx[c]] = TRUE]
            /\ mg' = [mg EXCEPT ![c] = idx[c]]
            /\ pc' = [pc EXCEPT ![c] = "has"]
            /\ idx' = [idx EXCEPT ![c] = 0]
            /\ ticket' = [ticket EXCEPT ![c] = 0]
       ELSE /\ idx' = [idx EXCEPT ![c] = idx[c] + 1]
            /\ UNCHANGED <<mutexes, mg, pc, ticket>>
    /\ serial' = (serial /\ Quiet(c))
    /\ UNCHANGED <<buildVars, health_check, handles, semVars, sg, via>>

\* The permit of call c goes back to its semaphore, which grants it to a
\* pending acquire if there is one; c moves to position to.
Release(c, to) ==
    LET s == SemOf(c) IN
    IF sem_waiters[s] = <<>>
    THEN /\ sem_permits' = [sem_permits EXCEPT ![s] = @ + 1]
         /\ pc' = [pc EXCEPT ![c] = to]
         /\ sg' = [sg EXCEPT ![c] = FALSE]
         /\ idx' = [idx EXCEPT ![c] = 0]
         /\ UNCHANGED sem_waiters
    ELSE LET k == next_waiter(sem_waiters[s])
             w == sem_waiters[s][k]
         IN /\ sem_waiters' = [sem_waiters EXCEPT ![s] = RemoveAt(@, k)]
            /\ pc' = [pc EXCEPT ![c] = to, ![w] = "woken"]
            /\ sg' = [sg EXCEPT ![c] = FALSE, ![w] = TRUE]
            /\ idx' = [idx EXCEPT ![c] = 0]
            /\ UNCHANGED sem_permits

\* get_handler_option: the scan found no slot; sg is dropped as the function
\* returns None, and get_handler's unwrap panics
ReturnNone(c) ==
    /\ pc[c] = "scan"
    /\ idx[c] > Len(mutexes[PoolOf(c)])
    /\ Release(c, "panicked")
    /\ serial' = (serial /\ Quiet(c))
    /\ UNCHANGED <<buildVars, mutexes, health_check, handles, arrivals, mg,
                   ticket, via>>

\* Drop of a Handler, first field: sg
DropSg(c) ==
    /\ pc[c] = "has"
    /\ Release(c, "dropping")
    /\ serial' = (serial /\ Quiet(c))
    /\ UNCHANGED <<buildVars, mutexes, health_check, handles, arrivals, mg,
                   ticket, via>>

\* Drop of a Handler, second field: mg
DropMg(c) ==
    /\ pc[c] = "dropping"
    /\ mutexes' = [mutexes EXCEPT ![PoolOf(c)][mg[c]] = FALSE]
    /\ mg' = [mg EXCEPT ![c] = 0]
    /\ pc' = [pc EXCEPT ![c] = "dropped"]
    /\ serial' = (serial /\ Quiet(c))
    /\ UNCHANGED <<buildVars, health_check, handles, semVars, idx, sg, ticket,
                   via>>

\* A cancellation that forgets the permit a granted acquire already has.
CancelLeaky(c) ==
    /\ pc[c] \in {"waiting", "woken"}
    /\ sem_waiters' = [sem_waiters EXCEPT
                          ![SemOf(c)] = SelectSeq(@, LAMBDA x : x # c)]
    /\ pc' = [pc EXCEPT ![c] = "cancelled"]
    /\ sg' = [sg EXCEPT ![c] = FALSE]
    /\ ticket' = [ticket EXCEPT ![c] = 0]
    /\ serial' = (serial /\ Quiet(c))
    /\ UNCHANGED <<buildVars, mutexes, health_check, handles, sem_permits,
                   arrivals, idx, mg, via>>

\* The caller drops the future of get_handler while it is suspended in
\* acquire_arc(1).await, its only await: a pending acquire leaves the queue,
\* one that was already granted its permit gives the permit back
Cancel(c) ==
    /\ pc[c] \in {"waiting", "woken"}
    /\ IF pc[c] = "waiting"
       THEN /\ sem_waiters' = [sem_waiters EXCEPT
                                  ![SemOf(c)] = SelectSeq(@, LAMBDA x : x # c)]
            /\ pc' = [pc EXCEPT ![c] = "cancelled"]
            /\ UNCHANGED <<sem_permits, sg, idx>>
       ELSE Release(c, "cancelled")
    /\ ticket' = [ticket EXCEPT ![c] = 0]
    /\ serial' = (serial /\ Quiet(c))
    /\ UNCHANGED <<buildVars, mutexes, health_check, handles, arrivals, mg,
                   via>>

-----------------------------------------------------------------------------
\* More SurfPool values: clones, and pools built separately

\* A Clone that gives the copy a gate of its own.
clone_new_gate(p, gates) ==
    [value |-> [p EXCEPT !.semaphore = MaxPools],
     gates |-> [gates EXCEPT ![MaxPools] = Len(mutexes[p.pool])]]

\* #[derive(Clone)] SurfPool: Arc::clone of every slot and of the semaphore;
\* nothing is allocated (gates: the permits of the allocated semaphores)
clone(p, gates) == [value |-> p, gates |-> gates]

\* SurfPool::clone on SurfPool value h
ClonePool(h) ==
    /\ phase = "built"
    /\ Len(handles) < MaxHandles
    /\ LET r == clone(handles[h], sem_permits) IN
        /\ handles' = Append(handles, r.value)
        /\ sem_permits' = r.gates
    /\ UNCHANGED <<buildVars, mutexes, health_check, sem_waiters, arrivals,
                   callVars>>

\* Pools built so far.
Built_pools == {handles[h].pool : h \in 1..Len(handles)}

\* SurfPoolBuilder::new(size).unwrap().build().await for one more pool, with
\* no health_check: build() has nothing to wait for and runs in one step
BuildAnother(size) ==
    /\ phase = "built"
    /\ new(size).ok
    /\ Len(handles) < MaxHandles
    /\ Cardinality(Built_pools) < MaxPools
    /\ LET g == Cardinality(Built_pools) + 1 IN
        /\ mutexes' = [mutexes EXCEPT ![g] = AllocPool(size)]
        /\ sem_permits' = [sem_permits EXCEPT ![g] = Semaphore_new(size)]
        /\ handles' = Append(handles, [pool |-> g, semaphore |-> g])
    /\ UNCHANGED <<buildVars, health_check, sem_waiters, arrivals, callVars>>

-----------------------------------------------------------------------------
Init ==
    /\ phase = "start"
    /\ req = 0
    /\ builder = DefaultBuilder
    /\ err = NoError
    /\ warm_i = 0
    /\ warmups = <<>>
    /\ warm_failed = FALSE
    /\ mutexes = [g \in PoolIds |-> <<>>]
    /\ health_check = FALSE
    /\ sem_permits = [g \in PoolIds |-> 0]
    /\ sem_waiters = [g \in PoolIds |-> <<>>]
    /\ handles = <<>>
    /\ arrivals = 0
    /\ pc = [c \in Calls |-> "idle"]
    /\ idx = [c \in Calls |-> 0]
    /\ sg = [c \in Calls |-> FALSE]
    /\ mg = [c \in Calls |-> 0]
    /\ ticket = [c \in Calls |-> 0]
    /\ via = [c \in Calls |-> 0]
    /\ serial = TRUE

BuilderStep ==
    \/ HealthCheck
    \/ \E b \in BOOLEAN : PreConnect(b)
    \/ BuildStart
    \/ WarmLock
    \/ WarmRecv
    \/ BuildReturn

CallStep(c) ==
    \/ \E h \in 1..Len(handles) : Acquire(c, h)
    \/ Resume(c)
    \/ TryLock(c)
    \/ ReturnNone(c)
    \/ DropSg(c)
    \/ DropMg(c)
    \/ Cancel(c)

Next ==
    \/ \E size \in PoolSizes : New(size)
    \/ BuilderStep
    \/ \E c \in Calls : CallStep(c)

Spec == Init /\ [][Next]_vars

\* The builder alone, over every size from 0 to beyond the maximum.
NextBuilder ==
    \/ \E size \in AllSizes : New(size)
    \/ BuilderStep

BuilderSpec == Init /\ [][NextBuilder]_vars

\* Small pools without warm-up, with clones of them and with pools built
\* separately with the same size.
NextClone ==
    \/ \E size \in 1..(MaxSize - 1) : New(size)
    \/ BuildStart
    \/ BuildReturn
    \/ \E h \in 1..Len(handles) : ClonePool(h)
    \/ \E size \in {req} : BuildAnother(size)
    \/ \E c \in 1..MaxCloneCalls : CallStep(c)

CloneSpec == Init /\ [][NextClone]_vars


-----------------------------------------------------------------------------
\* Vocabulary of the properties

Built == phase = "built"

\* Calls whose Handler exists: returned by get_handler and not yet fully
\* dropped.
Live == {c \in Calls : pc[c] \in {"has", "dropping"}}

Returned == {c \in Calls : pc[c] = "has"}
Suspended == {c \in Calls : pc[c] = "waiting"}
Issued == {c \in Calls : pc[c] # "idle"}

\* No Handler has started to drop.
NoDrop == \A c \in Calls : pc[c] \notin {"dropping", "dropped"}

\* No call was cancelled.
NoCancel == \A c \in Calls : pc[c] # "cancelled"

-----------------------------------------------------------------------------
\* C1: a get_handler call that has acquired a gate permit always finds a
\* slot it can lock: get_handler_option never returns None and the unwrap
\* in get_handler never panics.
C1_NeverNone == \A c \in Calls : pc[c] # "panicked"

\* C2: a dropping Handler releases its slot lock before its permit: in no
\* state has a Handler returned its permit while it still holds its slot
\* lock.
C2_LockReleasedFirst == \A c \in Calls : mg[c] # 0 => sg[c]

\* C3: at most N Handlers are live at any time; when more than N calls were
\* issued, no Handler was dropped and no call was cancelled, once the scans
\* are over exactly N calls have returned and the others (exactly one for
\* N+1 calls) are suspended on the gate, and a suspended call that is not
\* cancelled leaves the gate only by a step that starts the drop of a
\* Handler.
C3_State ==
    Built =>
        /\ Cardinality(Live) <= Len(pool)
        /\ (/\ NoDrop
            /\ NoCancel
            /\ Cardinality(Issued) > Len(pool)
            /\ \A c \in Calls : pc[c] # "scan")
           => /\ Cardinality(Returned) = Len(pool)
              /\ Cardinality(Suspended) = Cardinality(Issued) - Len(pool)

C3_Step ==
    \A c \in Calls :
        (NoDrop /\ pc[c] = "waiting" /\ pc'[c] \notin {"waiting", "cancelled"})
            => ~NoDrop'

C3_AtMostNLive == []C3_State /\ [][C3_Step]_vars

C3_Witness ==
    /\ Built
    /\ Len(pool) = 2
    /\ NoDrop
    /\ Cardinality(Returned) = 2
    /\ Cardinality(Suspended) = 1

\* C4: no two live Handlers hold the same slot.
C4_MutualExclusion ==
    \A c, d \in Live : c # d => mg[c] # mg[d]

C4_Witness ==
    \E c, d \in Calls :
        /\ pc[c] = "has" /\ mg[c] = 1
        /\ pc[d] = "has" /\ mg[d] = 2

\* C5, as stated: after build, the permits held by live Handlers plus the
\* permits available in the gate are N.
C5_HandlersAndGate ==
    Built => Cardinality({c \in Live : sg[c]}) + permits = Len(pool)

\* C5, amended: after build, the permits held by live Handlers, plus the
\* permits held by get_handler calls that have passed the gate and have not
\* returned yet, plus the permits available in the gate, are N.
C5_Conservation ==
    Built => Cardinality({c \in Calls : sg[c]}) + permits = Len(pool)

C5_Witness ==
    /\ Built
    /\ \E c, d \in Calls :
        /\ pc[c] = "scan" /\ sg[c]
        /\ pc[d] = "has" /\ sg[d]

\* C6: a step wakes at most one suspended call, the one woken is the one
\* that arrived at the gate first among the suspended calls, and the drop of
\* a Handler while calls are suspended wakes exactly one.
C6_Step ==
    LET Woken == {c \in Calls : pc[c] = "waiting" /\ pc'[c] = "woken"}
        Drops == \E d \in Calls : pc[d] = "has" /\ pc'[d] = "dropping"
    IN /\ Cardinality(Woken) <= 1
       /\ \A c \in Woken : \A d \in Suspended : ticket[c] <= ticket[d]
       /\ (Drops /\ Suspended # {}) => Cardinality(Woken) = 1

C7_SuspendedCallReturns ==
    \A c \in Calls : pc[c] = "panicked" => ticket[c] = 0

\* C8: new(size) returns SizeNotValid(size) exactly when size is 0 or more
\* than 100, and otherwise a builder with that size, no health_check and
\* pre_connect false.
C8_Step ==
    (phase = "start" /\ phase' # "start") =>
        IF req' = 0 \/ req' > 100
        THEN /\ phase' = "error"
             /\ err' = [kind |-> "SizeNotValid", size |-> req']
        ELSE /\ phase' = "builder"
             /\ err'.kind = "None"
             /\ builder' = [size |-> req', health_check |-> FALSE,
                            pre_connect |-> FALSE]

C9_SizeFixed ==
    Built => (get_pool_size = req /\ req >= 1 /\ req <= 100)

C9_Witness ==
    /\ Built
    /\ get_pool_size = 100
    /\ \E c, d \in Calls : pc[c] = "dropped" /\ pc[d] = "has"

\* C10: build() issues one warm-up request per slot, in slot order, all of
\* them before it returns, when a health_check is set and pre_connect is
\* true, and none otherwise.
C10_Warmups ==
    /\ phase \in {"start", "builder", "error"} => warmups = <<>>
    /\ phase = "warm_lock" => warmups = [k \in 1..(warm_i - 1) |-> k]
    /\ phase = "warm_recv" => warmups = [k \in 1..(warm_i - 1) |-> k]
    /\ phase \in {"finish", "built"} =>
        warmups = IF builder.health_check /\ builder.pre_connect
                  THEN [k \in 1..builder.size |-> k]
                  ELSE <<>>

C10_Witness ==
    /\ phase = "built"
    /\ builder.size = 3
    /\ builder.health_check /\ builder.pre_connect
    /\ warmups = <<1, 2, 3>>

\* C11: whatever warm-up requests fail, build() returns a pool with N slots,
\* all unlocked, and N permits, and the first N get_handler calls return a
\* Handler without suspending; a failed warm-up does not stop the loop.
C11_BuildSurvivesWarmupErrors ==
    /\ phase \in {"finish", "built"} /\ Issued = {} =>
        /\ Len(pool) = req
        /\ \A k \in 1..Len(pool) : ~pool[k]
    /\ Built /\ Issued = {} => permits = Len(pool) /\ waiters = <<>>
    /\ Built /\ NoDrop /\ Cardinality(Issued) <= Len(pool) =>
        \A c \in Calls : pc[c] \notin {"waiting", "panicked"}
    /\ warm_failed => phase \in {"warm_lock", "warm_recv", "finish", "built"}

C11_Witness ==
    /\ Built
    /\ warm_failed
    /\ Len(pool) = 3
    /\ Cardinality(Returned) = 3

\* C12, as stated: whoever else is using the pool, a get_handler call issued
\* when fewer than N Handlers are live is not suspended.
C12_AnyCallerStep ==
    \A c \in Calls :
        (/\ pc[c] = "idle" /\ pc'[c] # "idle"
         /\ Cardinality(Live) < Len(pool))
        => pc'[c] # "waiting"

C12_SerialStep ==
    \A c \in Calls :
        (/\ serial'
         /\ pc[c] = "idle" /\ pc'[c] # "idle"
         /\ Cardinality(Live) < Len(pool))
        => pc'[c] = "scan"

C12_SerialState ==
    (Built /\ serial) =>
        /\ \A c \in Calls : pc[c] \notin {"waiting", "woken", "panicked"}
            \/ Cardinality(Live) = Len(pool)
        /\ \A c \in Calls : pc[c] # "panicked"
        /\ \A c \in Calls :
            pc[c] = "scan" => \E k \in idx[c]..Len(pool) : ~pool[k]
        /\ \A c, d \in Returned : c # d => mg[c] # mg[d]

LockedSlots == {k \in 1..Len(pool) : pool[k]}

\* C13: after build, whenever no get_handler call is between the gate and
\* its return, the permits taken (N minus the permits available in the gate)
\* are as many as the slots whose lock is held.
C13_PermitsMatchLocks ==
    (Built /\ \A c \in Calls : pc[c] \notin {"woken", "scan"})
        => Len(pool) - permits = Cardinality(LockedSlots)

\* C14: the scan of a call starts at the first slot, moves on by one slot
\* only when it finds the slot it probes locked, and the call returns with
\* the Handler on the slot it probes as soon as that slot is free, which the
\* step locks; so the Handler holds the first slot the scan found free and
\* every slot before it was found locked.  The slot depends on the locks
\* alone, not on the caller.
C14_Step ==
    \A c \in Calls :
        /\ (pc[c] # "scan" /\ pc'[c] = "scan") => idx'[c] = 1
        /\ (pc[c] = "scan" /\ pc'[c] = "scan" /\ idx'[c] # idx[c]) =>
            /\ idx'[c] = idx[c] + 1
            /\ pool[idx[c]]
            /\ pool' = pool
        /\ (pc[c] = "scan" /\ pc'[c] = "has") =>
            /\ mg'[c] = idx[c]
            /\ ~pool[idx[c]]
            /\ pool' = [pool EXCEPT ![idx[c]] = TRUE]
        /\ (pc[c] = "scan" /\ idx[c] <= Len(pool) /\ ~pool[idx[c]])
            => pc'[c] \in {"scan", "has"}
        /\ pc'[c] = "has" => pc[c] \in {"scan", "has"}

C14_FirstFree == [][C14_Step]_vars

C14_Witness ==
    /\ Built
    /\ Len(pool) = 2
    /\ ~pool[1]
    /\ \E a, b, c \in Calls :
        /\ pc[a] = "dropped"
        /\ pc[b] = "dropped"
        /\ pc[c] = "has" /\ mg[c] = 2

\* Calls that own a permit.
PermitHolders == {c \in Calls : sg[c]}

\* C15: a cancelled get_handler call retains nothing: it owns no permit and
\* no slot lock and is no longer pending at the gate.  The step that cancels
\* it changes no slot lock; it leaves the gate's permits alone when the call
\* was pending, and gives back the one permit the call had been granted
\* (to the gate or to the next pending call) otherwise.  A call that is
\* cancelled never had a slot lock, and a call that returned has a Handler
\* with both a permit and a slot lock.
C15_State ==
    /\ \A c \in Calls :
        pc[c] = "cancelled" =>
            /\ ~sg[c]
            /\ mg[c] = 0
            /\ idx[c] = 0
            /\ \A k \in 1..Len(waiters) : waiters[k] # c
    /\ \A c \in Returned : sg[c] /\ mg[c] # 0
    /\ \A c \in Calls : pc[c] \in {"waiting", "woken"} => mg[c] = 0
    /\ Built => Cardinality(PermitHolders) + permits = Len(pool)

C15_Step ==
    \A c \in Calls :
        (pc[c] # "cancelled" /\ pc'[c] = "cancelled") =>
            /\ pc[c] \in {"waiting", "woken"}
            /\ pool' = pool
            /\ mg' = mg
            /\ pc[c] = "waiting" =>
                /\ permits' = permits
                /\ sg' = sg
                /\ \A d \in Calls \ {c} : pc'[d] = pc[d]
            /\ pc[c] = "woken" =>
                Cardinality(PermitHolders') + permits'
                    = Cardinality(PermitHolders) + permits

C15_CancelKeepsNothing == []C15_State /\ [][C15_Step]_vars

C15_Witness ==
    /\ Built
    /\ Len(pool) = 1
    /\ permits = 1
    /\ \E a, b \in Calls :
        /\ pc[a] = "cancelled"
        /\ pc[b] = "dropping"

\* C16: after build, a step in which no call is cancelled makes a permit
\* available again (in the gate, or granted to a pending call) or unlocks a
\* slot only if it is a step of the drop of a Handler.
C16_Step ==
    LET DropStep ==
            \E d \in Calls : \/ pc[d] = "has" /\ pc'[d] = "dropping"
                             \/ pc[d] = "dropping" /\ pc'[d] = "dropped"
        CancelStep ==
            \E c \in Calls : pc[c] # "cancelled" /\ pc'[c] = "cancelled"
        PermitFreed ==
            \/ permits' > permits
            \/ \E c \in Calls : pc[c] = "waiting" /\ pc'[c] = "woken"
        SlotFreed == \E k \in 1..Len(pool) : pool[k] /\ ~pool'[k]
    IN (Built /\ ~CancelStep /\ (PermitFreed \/ SlotFreed)) => DropStep

C16_OnlyDropFrees == [][C16_Step]_vars

\* The calls made on SurfPool values of pool g.
CallsOn(g) == {c \in Calls : via[c] # 0 /\ PoolOf(c) = g}

\* C17: SurfPool values have the same slots exactly when they have the same
\* gate, and a clone has the slots and the gate of the value it was cloned
\* from, allocating nothing.  For every pool built, counting the calls made
\* on all its SurfPool values together: at most N Handlers are live, no two of
\* them on the same slot, the slot of each is locked, and the permits they
\* and the calls in progress own plus the permits available in its gate are
\* N.  A step of a call changes the slots, the gate and the calls of the pool
\* it was made on and of no other pool.
C17_State ==
    Built =>
        /\ \A h, k \in 1..Len(handles) :
            handles[h].pool = handles[k].pool
                <=> handles[h].semaphore = handles[k].semaphore
        /\ \A g \in Built_pools :
            /\ Cardinality(CallsOn(g) \cap Live) <= Len(mutexes[g])
            /\ \A c, d \in CallsOn(g) \cap Live : c # d => mg[c] # mg[d]
            /\ \A c \in CallsOn(g) \cap Live : mutexes[g][mg[c]]
            /\ Cardinality(CallsOn(g) \cap PermitHolders) + sem_permits[g]
                   = Len(mutexes[g])
            /\ \A k \in 1..Len(sem_waiters[g]) : sem_waiters[g][k] \in CallsOn(g)

C17_Step ==
    /\ (Built /\ Len(handles') > Len(handles) /\ mutexes' = mutexes) =>
        /\ \E h \in 1..Len(handles) : handles'[Len(handles')] = handles[h]
        /\ sem_permits' = sem_permits
        /\ sem_waiters' = sem_waiters
    /\ \A g \in Built_pools :
        (\/ mutexes'[g] # mutexes[g]
         \/ sem_permits'[g] # sem_permits[g]
         \/ sem_waiters'[g] # sem_waiters[g])
        => \E c \in Calls : pc'[c] # pc[c] /\ via'[c] # 0
                             /\ handles[via'[c]].pool = g
    /\ \A c, d \in Calls :
        (pc'[c] # pc[c] /\ pc'[d] # pc[d]) =>
            handles[via'[c]].pool = handles[via'[d]].pool

C17_ClonesShare == []C17_State /\ [][C17_Step]_vars

C17_Witness ==
    /\ Built
    /\ Len(pool) = 1
    /\ Len(handles) = 3
    /\ handles[2] = handles[1]
    /\ handles[3].pool # handles[1].pool
    /\ \E a, b \in Calls :
        /\ pc[a] = "has" /\ via[a] = 2
        /\ pc[b] = "waiting" /\ via[b] = 1

====
